---- MODULE Spec2Model ----
(***************************************************************************)
(* pyteleloisirs: the acquisition-and-caching pipeline of                  *)
(* src/pyteleloisirs/pyteleloisirs.py.                                     *)
(*                                                                         *)
(* Coroutines run on one event loop: the code between two network waits    *)
(* runs without interleaving, so each action below is one such segment.    *)
(* Times are minutes since midnight of the current day; an absent Python   *)
(* value (None) of record or list type is the empty sequence, a present    *)
(* one the one-element sequence holding it.                                *)
(***************************************************************************)
EXTENDS Integers, Sequences, FiniteSets, TLC

VARIABLES
    CACHE,      \* _CACHE
    tasks,      \* the coroutines of the calls in progress, by slot
    returned,   \* the call that returned or raised in the last step, if any
    clock,      \* datetime.datetime.now(), in minutes
    util        \* the last call of a synchronous helper: arguments and result

vars == <<CACHE, tasks, returned, clock, util>>

------------------------------------------------------------------------------
(* Bounds of the model *)

\* the wall clock is observed every TickHours hours, MaxTicks times
TickHours == 4
MaxTicks == 1

------------------------------------------------------------------------------
(* Program constants *)

BASE_URL == "http://www.programme-tv.net"

\* async_get_channels / async_get_program_guide: refresh_interval=4
DefaultRefreshInterval == 4

\* datetime.timedelta(hours=refresh_interval), in minutes
MinutesPerHour == 60

\* the absent string value
None == "None"

\* the empty string among the pieces of a split text
EmptyText == -1

\* the slots of the calls the event loop runs concurrently
Tasks == {1, 2}

\* refresh_interval values callers pass
RefreshIntervals == {DefaultRefreshInterval, 2 * DefaultRefreshInterval}

timedelta_hours(h) == h * MinutesPerHour

------------------------------------------------------------------------------
(* Dictionaries *)

Pop(d, k) == [x \in (DOMAIN d) \ {k} |-> d[x]]

Put(d, k, v) == [x \in (DOMAIN d) \cup {k} |-> IF x = k THEN v ELSE d[x]]

\* an insertion-ordered dict is a sequence of <<key, value>> pairs
Keys(od) == [i \in 1..Len(od) |-> od[i][1]]

KeySet(od) == {od[i][1] : i \in 1..Len(od)}

HasKey(od, k) == k \in KeySet(od)

\* dict.get(k): the value as a one-element sequence, <<>> when absent
Lookup(od, k) ==
    IF HasKey(od, k)
    THEN <<od[CHOOSE i \in 1..Len(od) : od[i][1] = k][2]>>
    ELSE <<>>

\* od[k] = v: replaces in place, or appends
SetItem(od, k, v) ==
    IF HasKey(od, k)
    THEN [i \in 1..Len(od) |-> IF od[i][1] = k THEN <<k, v>> ELSE od[i]]
    ELSE Append(od, <<k, v>>)

------------------------------------------------------------------------------
(* The documents the source serves *)

\* an <li> of the index page
Li(child, title, href) == [child |-> child, title |-> title, href |-> href]

ChannelHref(slug) == <<"programme", "chaine", slug>>

\* no channel link at all: a list item without children, one whose first
\* child is no anchor, an anchor elsewhere, an anchor without href
IndexEmpty ==
    << Li("none", None, <<>>),
       Li("span", None, <<>>),
       Li("a", "Replay", <<"replay">>),
       Li("a", "Home", <<>>) >>

IndexOne ==
    << Li("a", "TF1", ChannelHref("tf1")),
       Li("broken", None, <<>>),
       Li("a", "tf1", ChannelHref("tf1-series")),
       Li("a", "Replay", <<"replay">>) >>

IndexTwo ==
    << Li("none", None, <<>>),
       Li("a", "tf1", ChannelHref("tf1")) >>

IndexDocs == {IndexEmpty, IndexOne, IndexTwo}

\* names a caller may ask for
RequestedNames == {"TF1", "tf1"}

\* the name overlapping calls ask for
ConcurrentNames == {"tf1"}

\* a broadcast card of a schedule page
Card(title, href, genre, hour, dur, img) ==
    [title |-> title, href |-> href, genre |-> genre,
     hour |-> hour, dur |-> dur, img |-> img]

\* "0h00" / "90min", "1h30" / "4h", "23h00" without duration span,
\* "5h30" / "0h05min" without href, no title anchor, "25h00" / "10min",
\* "12h00" / "0min"
CardNews == Card("News", <<"news">>, "Info", <<0, 0>>, <<90>>, "img")
CardFilm == Card("Film", <<"film">>, "Cinema", <<1, 30>>, <<4, EmptyText>>, None)
CardNoDuration == Card("Late", <<"late">>, "Show", <<23, 0>>, <<>>, None)
CardNoHref == Card("Meteo", <<>>, "Info", <<5, 30>>, <<0, 5>>, None)
CardNoTitle == Card(None, <<>>, "Info", <<22, 0>>, <<10>>, None)
CardBadHour == Card("Odd", <<"odd">>, "Show", <<25, 0>>, <<10>>, None)
CardZero == Card("Flash", <<"flash">>, "Info", <<12, 0>>, <<0>>, None)

SchedEmpty == <<CardNoTitle>>
SchedDay == <<CardNews, CardNoDuration, CardFilm, CardBadHour>>
SchedNoHref == <<CardNoDuration, CardNoHref>>
SchedZero == <<CardZero>>

SchedDocs == {SchedEmpty, SchedDay, SchedNoHref}

\* the schedule document of a task that fetched none yet
NoSoup == <<>>

\* a program's detail page
Page(synopsis, h1) == [synopsis |-> synopsis, h1 |-> h1]

DetailPages == {Page("Synopsis", "Title"), Page(None, "Title"), Page(None, None)}

------------------------------------------------------------------------------
(* Pure functions *)

\* async_get_channels, the loop over the <li> items
RECURSIVE parse_channels(_, _)
parse_channels(items, channels) ==
    IF items = <<>> THEN channels
    ELSE LET li == Head(items)
             rest == Tail(items)
         IN  IF li.child = "broken" THEN parse_channels(rest, channels)
             ELSE IF li.child # "a" THEN parse_channels(rest, channels)
             ELSE IF li.href = <<>> \/ Len(li.href) < 2
                     \/ SubSeq(li.href, 1, 2) # <<"programme", "chaine">>
                  THEN parse_channels(rest, channels)
             ELSE parse_channels(rest,
                      SetItem(channels, li.title, <<BASE_URL>> \o li.href))

\* int(text)
IsInt(piece) == piece >= 0

\* the body of the try block of async_get_program_guide for one card:
\* <<record>>, or <<>> when it raises
parse_card(card) ==
    IF card.title = None THEN <<>>
    ELSE IF card.genre = None THEN <<>>
    ELSE IF card.dur = <<>> THEN <<>>
    ELSE IF card.hour = <<>> THEN <<>>
    ELSE IF \E i \in 1..Len(card.hour) : ~IsInt(card.hour[i]) THEN <<>>
    ELSE LET split == card.dur
             duration == IF Len(split) = 1 THEN <<0>> \o split
                         ELSE IF split[2] = EmptyText
                              THEN [split EXCEPT ![2] = 0]
                              ELSE split
         IN  IF \E i \in 1..Len(duration) : ~IsInt(duration[i]) THEN <<>>
             ELSE IF Len(card.hour) < 2 THEN <<>>
             ELSE IF card.hour[1] > 23 \/ card.hour[2] > 59 THEN <<>>
             ELSE LET prog_start == card.hour[1] * MinutesPerHour + card.hour[2]
                      prog_end == prog_start + timedelta_hours(duration[1])
                                             + duration[2]
                  IN  << [name |-> card.title, type |-> card.genre,
                          img |-> card.img, url |-> card.href,
                          summary |-> None, start_time |-> prog_start,
                          end_time |-> prog_end] >>

\* a loop that the first card that raises ends
RECURSIVE parse_programs_abort(_)
parse_programs_abort(cards) ==
    IF cards = <<>> THEN <<>>
    ELSE IF parse_card(Head(cards)) = <<>> THEN <<>>
    ELSE parse_card(Head(cards)) \o parse_programs_abort(Tail(cards))

\* async_get_program_guide, the loop over the broadcast cards
RECURSIVE parse_programs(_)
parse_programs(cards) ==
    IF cards = <<>> THEN <<>>
    ELSE parse_card(Head(cards)) \o parse_programs(Tail(cards))

\* fuzzywuzzy full_process: lower case, punctuation stripped; None gives ""
Norm(s) ==
    CASE s = "TF1" -> "tf1"
      [] s = None -> ""
      [] OTHER -> s

\* the scorer of process.extractOne: 100 for equal processed strings, 0
\* for an empty processed query
Score(query, choice) ==
    IF Norm(query) = "" THEN 0
    ELSE IF Norm(query) = Norm(choice) THEN 100
    ELSE 0

\* process.extractOne(query, choices)[0]: max() keeps the first best choice
extractOne(query, choices) ==
    LET best == CHOOSE i \in 1..Len(choices) :
                    /\ \A j \in 1..Len(choices) :
                           Score(query, choices[j]) <= Score(query, choices[i])
                    /\ \A j \in 1..(i - 1) :
                           Score(query, choices[j]) < Score(query, choices[i])
    IN  choices[best]

\* what async_determine_channel gives when extractOne raises
Raises == "<TypeError>"

\* how the installed fuzzywuzzy treats a query that is None: its
\* full_process either maps None to "" or raises a TypeError
NoneQueries == {"empty", "raise"}

\* a resolver that always asks the fuzzy matcher
determine_channel_fuzzy_only(channel_data, channel, none_query) ==
    IF channel_data = <<>> THEN None
    ELSE extractOne(channel, Keys(channel_data[1].data))

\* async_determine_channel after its await: the channel name, or None
determine_channel(channel_data, channel, none_query) ==
    IF channel_data = <<>> THEN None
    ELSE LET channels == Keys(channel_data[1].data)
         IN  IF \E i \in 1..Len(channels) : channels[i] = channel
             THEN channel
             ELSE IF channel = None /\ none_query = "raise" THEN Raises
             ELSE extractOne(channel, channels)

\* extract_program_summary: [raised, summary]
extract_program_summary(page) ==
    IF page.synopsis # None
    THEN [raised |-> FALSE, summary |-> page.synopsis]
    ELSE IF page.h1 = None
         THEN [raised |-> TRUE, summary |-> None]
         ELSE [raised |-> FALSE, summary |-> "No summary"]

\* async_get_current_program, the loop over the guide
RECURSIVE current_of(_, _)
current_of(guide, now) ==
    IF guide = <<>> THEN <<>>
    ELSE IF now > Head(guide).start_time /\ now < Head(guide).end_time
         THEN <<Head(guide)>>
         ELSE current_of(Tail(guide), now)

------------------------------------------------------------------------------
(* The synchronous helpers *)

HoursPerDay == 24

SecondsPerMinute == 60

\* timedelta.seconds of a difference of td minutes: the seconds of the last,
\* incomplete day, the whole days being kept in timedelta.days
seconds(td) == (td % (HoursPerDay * MinutesPerHour)) * SecondsPerMinute

RECURSIVE GCD(_, _)
GCD(a, b) == IF b = 0 THEN a ELSE GCD(b, a % b)

\* a / b of two numbers a >= 0 and b > 0: the number, as the fraction in
\* lowest terms
TrueDiv(a, b) == [num |-> a \div GCD(a, b), den |-> b \div GCD(a, b)]

\* what a helper returns: <<value>>, <<>> for None, or the exception it raises
Returns(val) == [raised |-> FALSE, val |-> val]

\* a program as the helpers read it: program.get('start_time') and
\* program.get('end_time'), <<>> when missing or None
Prog(start, end) == [start_time |-> start, end_time |-> end]

\* get_program_duration(program)
get_program_duration(program) ==
    IF program.start_time = <<>> \/ program.end_time = <<>> THEN Returns(<<>>)
    ELSE Returns(<<seconds(program.end_time[1] - program.start_time[1])>>)

\* get_current_program_progress(program) at the time now
get_current_program_progress(program, now) ==
    LET program_duration == get_program_duration(program).val
    IN  IF program_duration = <<>> \/ program_duration[1] = 0
        THEN Returns(<<>>)
        ELSE Returns(<<TrueDiv(seconds(now - program.start_time[1]) * 100,
                               program_duration[1])>>)

\* get_remaining_time(program) at the time now
get_remaining_time(program, now) ==
    IF program.start_time = <<>> \/ program.end_time = <<>> THEN Returns(<<>>)
    ELSE IF now > program.end_time[1] THEN Returns(<<0>>)
    ELSE Returns(<<seconds(now - program.start_time[1])>>)

\* an url is the sequence of the pieces between its slashes; a piece is the
\* text pre, then the digits "WxH" of dim (if any), then the text post
Piece(pre, dim, post) == [pre |-> pre, dim |-> dim, post |-> post]

Text(text) == Piece(text, <<>>, "")

Dim(w, h) == Piece("", <<w, h>>, "")

IsEmptyPiece(piece) == piece = Text("")

\* the places where r'.+/(\d+)x(\d+)/.+' can match: a piece that is only
\* "WxH", with a slash and some text before it and after it
PathTokens(img_url) ==
    {i \in 1..Len(img_url) :
        /\ img_url[i].dim # <<>>
        /\ img_url[i].pre = "" /\ img_url[i].post = ""
        /\ i >= 2 /\ (i >= 3 \/ ~IsEmptyPiece(img_url[1]))
        /\ i <= Len(img_url) - 1
        /\ (i <= Len(img_url) - 2 \/ ~IsEmptyPiece(img_url[Len(img_url)]))}

\* re.sub(r'WxH', r'NxM', img_url): every occurrence is replaced
sub(dim, repl, img_url) ==
    [i \in 1..Len(img_url) |->
        IF img_url[i].dim = dim THEN [img_url[i] EXCEPT !.dim = repl]
        ELSE img_url[i]]

\* resize_program_image(img_url, img_size): the greedy '.+' makes the match
\* end at the last place
resize_program_image(img_url, img_size) ==
    IF PathTokens(img_url) = {} THEN Returns(<<img_url>>)
    ELSE LET last == CHOOSE i \in PathTokens(img_url) :
                         \A j \in PathTokens(img_url) : j <= i
             res_x == img_url[last].dim[1]
             res_y == img_url[last].dim[2]
         IN  IF res_x = 0
             THEN [raised |-> TRUE, val |-> <<"ZeroDivisionError">>]
             ELSE Returns(<<sub(<<res_x, res_y>>,
                                <<img_size, (img_size * res_y) \div res_x>>,
                                img_url)>>)

\* the programs, times, urls and widths the helpers are called with
UtilPrograms ==
    {Prog(<<>>, <<>>), Prog(<<>>, <<620>>), Prog(<<590>>, <<>>),
     Prog(<<590>>, <<620>>), Prog(<<600>>, <<600>>), Prog(<<600>>, <<640>>),
     Prog(<<0>>, <<timedelta_hours(HoursPerDay)>>),
     Prog(<<0>>, <<timedelta_hours(HoursPerDay + 1)>>)}

UtilNows == {590, 600, 620, 630}

ImageUrls ==
    { <<Text("http:"), Text(""), Text("x"), Dim(300, 200), Text("img.jpg")>>,
      <<Text("http:"), Text(""), Text("x"), Text("img.jpg")>>,
      <<Text("http:"), Text(""), Text("x"), Piece("thumb-", <<300, 200>>, ".jpg")>>,
      <<Text("http:"), Text(""), Text("x"), Dim(300, 200), Text("a"),
        Dim(300, 200), Text("img.jpg")>>,
      <<Text("http:"), Text(""), Text("x"), Dim(300, 200), Dim(100, 100),
        Text("img.jpg")>> }

ImageSizes == {100, 150, 300}

------------------------------------------------------------------------------
(* The cache policy *)

\* a cache check that serves an entry whose age equals max_cache_age
IsFresh_inclusive(now, last_updated, refresh_interval) ==
    now - last_updated <= timedelta_hours(refresh_interval)

\* datetime subtraction and comparison with max_cache_age
IsFresh(now, last_updated, refresh_interval) ==
    now - last_updated < timedelta_hours(refresh_interval)

\* a cache check that does not look at no_cache
channels_check_ignores_no_cache(cache, now, no_cache, refresh_interval) ==
    IF "channels" \in DOMAIN cache
    THEN IF IsFresh(now, cache["channels"].last_updated, refresh_interval)
         THEN [cache |-> cache, hit |-> TRUE, evicted |-> FALSE]
         ELSE [cache |-> Pop(cache, "channels"), hit |-> FALSE,
               evicted |-> TRUE]
    ELSE [cache |-> cache, hit |-> FALSE, evicted |-> FALSE]

\* async_get_channels up to its await: the cache after the check, and
\* whether the cached entry is returned
channels_check(cache, now, no_cache, refresh_interval) ==
    IF ~no_cache /\ "channels" \in DOMAIN cache
    THEN IF IsFresh(now, cache["channels"].last_updated, refresh_interval)
         THEN [cache |-> cache, hit |-> TRUE, evicted |-> FALSE]
         ELSE [cache |-> Pop(cache, "channels"), hit |-> FALSE,
               evicted |-> TRUE]
    ELSE [cache |-> cache, hit |-> FALSE, evicted |-> FALSE]

\* a commit that keeps the entry another call wrote in the meantime
channels_commit_first_wins(cache, now, channels) ==
    IF channels # <<>>
    THEN IF "channels" \in DOMAIN cache
         THEN [cache |-> cache, ret |-> <<cache["channels"]>>]
         ELSE LET entry == [last_updated |-> now, data |-> channels]
              IN  [cache |-> Put(cache, "channels", entry), ret |-> <<entry>>]
    ELSE [cache |-> cache, ret |-> <<>>]

\* async_get_channels after the parse: the cache and the returned entry
channels_commit(cache, now, channels) ==
    IF channels # <<>>
    THEN LET entry == [last_updated |-> now, data |-> channels]
         IN  [cache |-> Put(cache, "channels", entry), ret |-> <<entry>>]
    ELSE [cache |-> cache, ret |-> <<>>]

\* _CACHE.get('guide').get(chan), as a one-element sequence
guide_entry(cache, chan) ==
    IF "guide" \in DOMAIN cache /\ chan \in DOMAIN cache["guide"]
    THEN <<cache["guide"][chan]>>
    ELSE <<>>

\* a cache check that evicts an outdated guide also when called with no_cache
guide_check_ignores_no_cache(cache, now, chan, no_cache, refresh_interval) ==
    IF guide_entry(cache, chan) # <<>>
    THEN IF ~no_cache /\ IsFresh(now, guide_entry(cache, chan)[1].last_updated,
                                 refresh_interval)
         THEN [cache |-> cache, hit |-> TRUE, evicted |-> FALSE]
         ELSE IF IsFresh(now, guide_entry(cache, chan)[1].last_updated,
                         refresh_interval)
         THEN [cache |-> cache, hit |-> FALSE, evicted |-> FALSE]
         ELSE [cache |-> Put(cache, "guide", Pop(cache["guide"], chan)),
               hit |-> FALSE, evicted |-> TRUE]
    ELSE [cache |-> cache, hit |-> FALSE, evicted |-> FALSE]

\* async_get_program_guide, the cache check
guide_check(cache, now, chan, no_cache, refresh_interval) ==
    IF ~no_cache /\ guide_entry(cache, chan) # <<>>
    THEN IF IsFresh(now, guide_entry(cache, chan)[1].last_updated,
                    refresh_interval)
         THEN [cache |-> cache, hit |-> TRUE, evicted |-> FALSE]
         ELSE [cache |-> Put(cache, "guide", Pop(cache["guide"], chan)),
               hit |-> FALSE, evicted |-> TRUE]
    ELSE [cache |-> cache, hit |-> FALSE, evicted |-> FALSE]

\* a commit without the test of programs
guide_commit_unconditional(cache, now, chan, programs) ==
    LET guide == IF "guide" \in DOMAIN cache THEN cache["guide"] ELSE <<>>
    IN  Put(cache, "guide",
            Put(guide, chan, [last_updated |-> now, data |-> programs]))

\* async_get_program_guide after the gather
guide_commit(cache, now, chan, programs) ==
    IF programs # <<>>
    THEN LET guide == IF "guide" \in DOMAIN cache THEN cache["guide"]
                      ELSE <<>>
         IN  Put(cache, "guide",
                 Put(guide, chan, [last_updated |-> now, data |-> programs]))
    ELSE cache

------------------------------------------------------------------------------
(* Coroutines *)

\* a local variable that is not assigned yet
Unset == "-"

\* a task slot that runs no call; order lists the members of the gather that
\* returned, in the order in which they did
IdleTask ==
    [op |-> "none", channel |-> None, no_cache |-> FALSE,
     refresh_interval |-> DefaultRefreshInterval,
     pc |-> "idle", cont |-> "-",
     ch_now |-> 0, ch_evicted |-> FALSE,
     g_channel |-> Unset, chan |-> Unset, g_now |-> 0, g_evicted |-> FALSE,
     none_query |-> "empty",
     hit |-> <<>>, chans |-> "unset", url |-> <<>>, soup |-> NoSoup,
     programs |-> <<>>, kids |-> <<>>, order |-> <<>>,
     n_index |-> 0, n_sched |-> 0, n_detail |-> 0,
     ret |-> [kind |-> "-", val |-> <<>>]]

\* the call of task t returns or raises
Done(cache, t, kind, val) ==
    [cache |-> cache,
     t |-> [t EXCEPT !.pc = "done", !.ret = [kind |-> kind, val |-> val]]]

\* an await of a document: the coroutine is suspended
Suspend(cache, t) == [cache |-> cache, t |-> t]

\* async_get_current_program after its await of the guide
current_after_guide(cache, t, kind, val, now) ==
    IF kind = "raised" THEN Done(cache, t, kind, val)
    ELSE IF kind = "none" \/ val[1] = <<>> THEN Done(cache, t, "none", <<>>)
    ELSE LET prog == current_of(val[1], now)
         IN  IF prog = <<>> THEN Done(cache, t, "none", <<>>)
             ELSE Done(cache, t, "value", prog)

\* async_get_program_guide returns to its caller
guide_return(cache, t, kind, val, now) ==
    IF t.op = "current" THEN current_after_guide(cache, t, kind, val, now)
    ELSE Done(cache, t, kind, val)

\* async_get_program_guide, from the url lookup to the schedule request
guide_after_chans(cache, t, chans, now) ==
    IF chans = <<>>
    THEN Done(cache, [t EXCEPT !.chans = "none"], "raised",
              <<"AttributeError">>)
    ELSE LET url == Lookup(chans[1].data, t.chan)
             t1 == [t EXCEPT !.chans = "entry", !.url = url]
         IN  IF url = <<>> THEN guide_return(cache, t1, "none", <<>>, now)
             ELSE Suspend(cache, [t1 EXCEPT !.pc = "await_sched",
                                            !.n_sched = @ + 1])

\* a nested async_get_channels() of task t, called at the site cont
call_channels(cache, t, cont, now) ==
    LET r == channels_check(cache, now, FALSE, DefaultRefreshInterval)
        t1 == [t EXCEPT !.ch_now = now, !.ch_evicted = r.evicted]
    IN  [cache |-> r.cache, hit |-> r.hit,
         t |-> IF r.hit THEN t1
               ELSE [t1 EXCEPT !.pc = "await_index", !.cont = cont,
                               !.n_index = @ + 1]]

\* chans = await async_get_channels() of async_get_program_guide
guide_call_chans(cache, t, now) ==
    LET r == call_channels(cache, t, "guide_chans", now)
    IN  IF r.hit
        THEN guide_after_chans(r.cache, r.t, <<r.cache["channels"]>>, now)
        ELSE Suspend(r.cache, r.t)

\* async_get_program_guide, from the cache check on
guide_after_determine(cache, t, chan, now) ==
    LET r == guide_check(cache, now, chan, t.no_cache, t.refresh_interval)
        t1 == [t EXCEPT !.chan = chan, !.g_now = now,
                        !.g_evicted = r.evicted]
    IN  IF chan = Raises THEN Done(cache, t, "raised", <<"TypeError">>)
        ELSE IF r.hit
        THEN LET entry == guide_entry(cache, chan)[1]
             IN  guide_return(r.cache,
                              [t1 EXCEPT !.hit = <<entry.last_updated>>],
                              "value", <<entry.data>>, now)
        ELSE guide_call_chans(r.cache, t1, now)

\* chan = await async_determine_channel(channel) of async_get_program_guide
guide_call_determine(cache, t, now) ==
    LET r == call_channels(cache, t, "guide_determine", now)
    IN  IF r.hit
        THEN guide_after_determine(r.cache, r.t,
                 determine_channel(<<r.cache["channels"]>>, t.g_channel,
                                   t.none_query), now)
        ELSE Suspend(r.cache, r.t)

\* async_get_current_program from its first line
current_call_determine(cache, t, now) ==
    LET r == call_channels(cache, t, "current_determine", now)
    IN  IF r.hit
        THEN guide_call_determine(r.cache,
                 [r.t EXCEPT !.g_channel =
                      determine_channel(<<r.cache["channels"]>>, t.channel,
                                        t.none_query)],
                 now)
        ELSE Suspend(r.cache, r.t)

\* the value async_determine_channel returns to a top-level caller
determine_return(cache, t, chan) ==
    IF chan = None THEN Done(cache, t, "none", <<>>)
    ELSE Done(cache, t, "value", <<chan>>)

\* async_determine_channel as a top-level call
toplevel_determine(cache, t, now) ==
    LET r == call_channels(cache, t, "determine", now)
    IN  IF r.hit
        THEN determine_return(r.cache, r.t,
                 determine_channel(<<r.cache["channels"]>>, t.channel,
                                   t.none_query))
        ELSE Suspend(r.cache, r.t)

\* async_get_channels as a top-level call
toplevel_channels(cache, t, now) ==
    LET r == channels_check(cache, now, t.no_cache, t.refresh_interval)
        t1 == [t EXCEPT !.ch_now = now, !.ch_evicted = r.evicted]
    IN  IF r.hit
        THEN Done(r.cache, t1, "value", <<r.cache["channels"]>>)
        ELSE Suspend(r.cache, [t1 EXCEPT !.pc = "await_index",
                                         !.cont = "channels",
                                         !.n_index = @ + 1])

\* the code that follows an awaited async_get_channels, by call site
after_channels(cache, t, chans, now) ==
    CASE t.cont = "channels" ->
             IF chans = <<>> THEN Done(cache, t, "none", <<>>)
             ELSE Done(cache, t, "value", chans)
      [] t.cont = "determine" ->
             determine_return(cache, t,
                 determine_channel(chans, t.channel, t.none_query))
      [] t.cont = "current_determine" ->
             guide_call_determine(cache,
                 [t EXCEPT !.g_channel =
                      determine_channel(chans, t.channel, t.none_query)],
                 now)
      [] t.cont = "guide_determine" ->
             guide_after_determine(cache, t,
                 determine_channel(chans, t.g_channel, t.none_query), now)
      [] t.cont = "guide_chans" ->
             guide_after_chans(cache, t, chans, now)

------------------------------------------------------------------------------
(* The fan-out of async_set_summary *)

\* tasks = [async_set_summary(prog) for prog in programs], each run to its
\* first await: session.get(None) raises before any request is sent
start_kids(programs) ==
    [i \in 1..Len(programs) |->
        IF programs[i].url = <<>> THEN "raised" ELSE "pending"]

Pending(kids) == {i \in 1..Len(kids) : kids[i] = "pending"}

\* a gather that resumes its caller when the first member is done
gather_ready_any(kids) == \E i \in 1..Len(kids) : kids[i] # "pending"

\* asyncio.gather(*tasks) hands the awaiting coroutine the first exception
\* of a member, or the results once every member has returned
gather_ready(kids) ==
    \/ \E i \in 1..Len(kids) : kids[i] = "raised"
    \/ \A i \in 1..Len(kids) : kids[i] = "ok"

gather_raises(kids) == \E i \in 1..Len(kids) : kids[i] = "raised"

\* async_get_program_guide after the schedule document arrived
guide_after_soup(cache, t, soup, now) ==
    LET programs == parse_programs(soup)
        kids == start_kids(programs)
        t1 == [t EXCEPT !.soup = soup, !.programs = programs, !.kids = kids,
                        !.n_detail = Cardinality(Pending(kids))]
    IN  IF programs = <<>>
        THEN guide_return(guide_commit(cache, t.g_now, t.chan, programs),
                          t1, "value", <<programs>>, now)
        ELSE Suspend(cache, [t1 EXCEPT !.pc = "await_gather"])

\* a join that lists the results in the order in which the members returned
guide_after_gather_as_completed(cache, t, now) ==
    LET programs == [k \in 1..Len(t.order) |-> t.programs[t.order[k]]]
    IN  IF gather_raises(t.kids)
        THEN guide_return(cache, t, "raised", <<"EnrichmentError">>, now)
        ELSE guide_return(guide_commit(cache, t.g_now, t.chan, programs),
                          t, "value", <<programs>>, now)

\* async_get_program_guide after the gather
guide_after_gather(cache, t, now) ==
    IF gather_raises(t.kids)
    THEN guide_return(cache, t, "raised", <<"EnrichmentError">>, now)
    ELSE guide_return(guide_commit(cache, t.g_now, t.chan, t.programs),
                      t, "value", <<t.programs>>, now)

\* async_set_summary after its request: the program and the member's state
set_summary(program, page) ==
    LET s == extract_program_summary(page)
    IN  IF s.raised THEN [program |-> program, kid |-> "raised"]
        ELSE [program |-> [program EXCEPT !.summary = s.summary],
              kid |-> "ok"]

------------------------------------------------------------------------------
(* Actions *)

\* no synchronous helper was called yet
NoCall == [fn |-> "none", program |-> <<>>, img_url |-> <<>>,
           img_size |-> 0, ret |-> <<>>]

Init ==
    /\ CACHE = <<>>
    /\ tasks = [t \in Tasks |-> IdleTask]
    /\ returned = <<>>
    /\ clock = 0
    /\ util = NoCall

\* a new call takes the first free slot
Free(t) ==
    /\ tasks[t].pc = "idle"
    /\ \A u \in Tasks : u < t => tasks[u].pc # "idle"

\* task t ran to its next await, or to its end: a call that ends leaves its
\* slot, and the members of its gather that still run are not followed
Step(t, m) ==
    /\ CACHE' = m.cache
    /\ tasks' = [tasks EXCEPT ![t] = IF m.t.pc = "done" THEN IdleTask
                                     ELSE m.t]
    /\ returned' = IF m.t.pc = "done" THEN <<m.t>> ELSE <<>>
    /\ UNCHANGED <<clock, util>>

\* get_channels(no_cache, refresh_interval)
CallGetChannels(t, no_cache, refresh_interval) ==
    /\ Free(t)
    /\ Step(t, toplevel_channels(CACHE,
           [IdleTask EXCEPT !.op = "channels", !.no_cache = no_cache,
                            !.refresh_interval = refresh_interval], clock))

\* async_determine_channel(channel)
CallDetermineChannel(t, channel) ==
    /\ Free(t)
    /\ Step(t, toplevel_determine(CACHE,
           [IdleTask EXCEPT !.op = "determine", !.channel = channel], clock))

\* get_program_guide(channel, no_cache, refresh_interval)
CallGetProgramGuide(t, channel, no_cache, refresh_interval) ==
    /\ Free(t)
    /\ Step(t, guide_call_determine(CACHE,
           [IdleTask EXCEPT !.op = "guide", !.channel = channel,
                            !.g_channel = channel, !.no_cache = no_cache,
                            !.refresh_interval = refresh_interval], clock))

\* get_current_program(channel, no_cache)
CallGetCurrentProgram(t, channel, no_cache) ==
    /\ Free(t)
    /\ \E none_query \in NoneQueries :
           Step(t, current_call_determine(CACHE,
               [IdleTask EXCEPT !.op = "current", !.channel = channel,
                                !.no_cache = no_cache,
                                !.none_query = none_query], clock))

\* the index document arrives: the rest of async_get_channels, then its
\* caller up to the next await
IndexResponse(t, doc) ==
    /\ tasks[t].pc = "await_index"
    /\ LET r == channels_commit(CACHE, tasks[t].ch_now,
                                parse_channels(doc, <<>>))
       IN  Step(t, after_channels(r.cache, tasks[t], r.ret, clock))

\* the request of a document fails: the exception reaches the caller
TransportError(t) ==
    /\ tasks[t].pc \in {"await_index", "await_sched"}
    /\ Step(t, Done(CACHE, tasks[t], "raised", <<"TransportError">>))

\* the schedule document arrives
ScheduleResponse(t, soup) ==
    /\ tasks[t].pc = "await_sched"
    /\ Step(t, guide_after_soup(CACHE, tasks[t], soup, clock))

\* the detail page of program i arrives
DetailResponse(t, i, page) ==
    /\ i \in Pending(tasks[t].kids)
    /\ LET r == set_summary(tasks[t].programs[i], page)
       IN  tasks' = [tasks EXCEPT ![t].programs[i] = r.program,
                                  ![t].kids[i] = r.kid,
                                  ![t].order = IF r.kid = "ok"
                                               THEN Append(@, i) ELSE @]
    /\ returned' = <<>>
    /\ UNCHANGED <<CACHE, clock, util>>

\* the request of the detail page of program i fails
DetailError(t, i) ==
    /\ i \in Pending(tasks[t].kids)
    /\ tasks' = [tasks EXCEPT ![t].kids[i] = "raised"]
    /\ returned' = <<>>
    /\ UNCHANGED <<CACHE, clock, util>>

\* the gather resumes async_get_program_guide
GatherResume(t) ==
    /\ tasks[t].pc = "await_gather"
    /\ gather_ready(tasks[t].kids)
    /\ Step(t, guide_after_gather(CACHE, tasks[t], clock))

\* time passes while the loop waits
Tick ==
    /\ clock < timedelta_hours(TickHours * MaxTicks)
    /\ clock' = clock + timedelta_hours(TickHours)
    /\ returned' = <<>>
    /\ UNCHANGED <<CACHE, tasks, util>>

\* the calls a caller may start in slot t
Call(t, names, no_caches, intervals) ==
    \/ \E no_cache \in no_caches, ri \in intervals :
           CallGetChannels(t, no_cache, ri)
    \/ \E channel \in names : CallDetermineChannel(t, channel)
    \/ \E channel \in names, no_cache \in no_caches, ri \in intervals :
           CallGetProgramGuide(t, channel, no_cache, ri)
    \/ \E channel \in names, no_cache \in no_caches :
           CallGetCurrentProgram(t, channel, no_cache)

\* the overlapping calls: the two cached queries, for one name
CallConcurrent(t) ==
    \/ \E no_cache \in BOOLEAN :
           CallGetChannels(t, no_cache, DefaultRefreshInterval)
    \/ \E channel \in ConcurrentNames, no_cache \in BOOLEAN :
           CallGetProgramGuide(t, channel, no_cache, DefaultRefreshInterval)

\* what the network delivers to the call in slot t
Deliver(t, index_docs, sched_docs, pages) ==
    \/ \E doc \in index_docs : IndexResponse(t, doc)
    \/ TransportError(t)
    \/ \E soup \in sched_docs : ScheduleResponse(t, soup)
    \/ \E i \in Pending(tasks[t].kids), page \in pages :
           DetailResponse(t, i, page)
    \/ \E i \in Pending(tasks[t].kids) : DetailError(t, i)
    \/ GatherResume(t)

\* get_channels, get_program_guide, get_current_program: each call runs the
\* event loop until it completes, so one call is in progress at a time
Next ==
    \/ Call(1, RequestedNames, BOOLEAN, RefreshIntervals)
    \/ Deliver(1, IndexDocs, SchedDocs, DetailPages)
    \/ Tick

Spec == Init /\ [][Next]_vars

\* the coroutines called from a running event loop: calls overlap
NextConcurrent ==
    \/ \E t \in Tasks : CallConcurrent(t)
    \/ \E t \in Tasks :
           Deliver(t, {IndexEmpty, IndexOne}, {SchedEmpty, SchedDay},
                   {Page("Synopsis", "Title"), Page(None, None)})
    \/ Tick

SpecConcurrent == Init /\ [][NextConcurrent]_vars

\* get_program_guide called again and again for one channel, whose schedule
\* page also lists a broadcast of no duration
NextGuide ==
    \/ \E channel \in ConcurrentNames, no_cache \in BOOLEAN :
           CallGetProgramGuide(1, channel, no_cache, DefaultRefreshInterval)
    \/ Deliver(1, {IndexOne}, {SchedDay, SchedZero}, DetailPages)
    \/ Tick

SpecGuide == Init /\ [][NextGuide]_vars

\* the helpers are called with a program, and an image url and width, at
\* some time of the day
InitUtil ==
    /\ CACHE = <<>>
    /\ tasks = [t \in Tasks |-> IdleTask]
    /\ returned = <<>>
    /\ clock \in UtilNows
    /\ \E program \in UtilPrograms, img_url \in ImageUrls,
          img_size \in ImageSizes :
           util = [NoCall EXCEPT !.program = program, !.img_url = img_url,
                                 !.img_size = img_size]

\* a helper is called with the arguments at hand and returns
CallUtil(fn, ret) ==
    /\ util' = [util EXCEPT !.fn = fn, !.ret = ret]
    /\ UNCHANGED <<CACHE, tasks, returned, clock>>

GetProgramDuration ==
    CallUtil("get_program_duration", get_program_duration(util.program))

GetCurrentProgramProgress ==
    CallUtil("get_current_program_progress",
             get_current_program_progress(util.program, clock))

GetRemainingTime ==
    CallUtil("get_remaining_time", get_remaining_time(util.program, clock))

ResizeProgramImage ==
    CallUtil("resize_program_image",
             resize_program_image(util.img_url, util.img_size))

NextUtil ==
    \/ GetProgramDuration
    \/ GetCurrentProgramProgress
    \/ GetRemainingTime
    \/ ResizeProgramImage

SpecUtil == InitUtil /\ [][NextUtil]_vars

------------------------------------------------------------------------------
(* Properties *)

\* the call in slot t sent a request for the index document in this step
IssuesIndexRequest(t) == tasks'[t].n_index = tasks[t].n_index + 1

\* the async_get_channels call that slot t awaits was called with no_cache
ForcedIndex(task) == task.cont = "channels" /\ task.no_cache

\* the call in slot t went through the guide cache check in this step and
\* did not return from it
PassesGuideCheck(t) ==
    /\ tasks[t].pc = "idle"
       \/ (tasks[t].pc = "await_index" /\ tasks[t].cont # "guide_chans")
    /\ tasks'[t].op \in {"guide", "current"}
    /\ tasks'[t].pc = "await_sched"
       \/ (tasks'[t].pc = "await_index" /\ tasks'[t].cont = "guide_chans")

\* a call served from the cache without a request was served an entry
\* younger than max_cache_age
C1_ServedFresh ==
    \A i \in 1..Len(returned) :
        LET r == returned[i]
        IN  /\ (r.op = "channels" /\ r.n_index = 0) =>
                   /\ ~r.no_cache
                   /\ r.ret.kind = "value"
                   /\ r.ch_now - r.ret.val[1].last_updated
                          < r.refresh_interval * MinutesPerHour
            /\ (r.op = "guide" /\ r.n_sched = 0 /\ r.ret.kind = "value") =>
                   /\ ~r.no_cache
                   /\ r.hit # <<>>
                   /\ r.g_now - r.hit[1]
                          < r.refresh_interval * MinutesPerHour

\* a call without no_cache that goes on to request a document has left no
\* entry under its key: an entry of age >= max_cache_age was evicted first
C1_StaleEvicted ==
    \A t \in Tasks :
        /\ (IssuesIndexRequest(t) /\ ~ForcedIndex(tasks'[t])) =>
               "channels" \notin DOMAIN CACHE'
        /\ (PassesGuideCheck(t) /\ ~tasks'[t].no_cache) =>
               guide_entry(CACHE', tasks'[t].chan) = <<>>

\* an absent entry appears only as the commit of a refresh: of the index
\* document a call awaited, or of the gather a call awaited
C1_NoResurrection ==
    /\ ("channels" \notin DOMAIN CACHE /\ "channels" \in DOMAIN CACHE') =>
           \E t \in Tasks :
               /\ tasks[t].pc = "await_index"
               /\ tasks'[t] # tasks[t]
               /\ CACHE'["channels"].last_updated = tasks[t].ch_now
    /\ \A chan \in RequestedNames :
           (guide_entry(CACHE, chan) = <<>> /\ guide_entry(CACHE', chan) # <<>>)
           => \E t \in Tasks :
                  /\ tasks[t].pc = "await_gather"
                  /\ tasks'[t] # tasks[t]
                  /\ tasks[t].chan = chan
                  /\ guide_entry(CACHE', chan)[1] =
                         [last_updated |-> tasks[t].g_now,
                          data |-> tasks[t].programs]

\* C1: for the channel directory and for every guide entry, a call without
\* no_cache returns the cached value without a request only when the entry
\* is present and now - last_updated < max_age; an entry of age >= max_age
\* is evicted before any request starts, is never returned, and comes back
\* only when a refresh commits it again.
C1_CacheFreshness ==
    /\ []C1_ServedFresh
    /\ [][C1_StaleEvicted /\ C1_NoResurrection]_vars

\* a guide call found the entry of its channel outdated, evicted it and
\* now awaits the schedule document
C1_Witness ==
    \E t \in Tasks :
        /\ tasks[t].op = "guide"
        /\ tasks[t].pc = "await_sched"
        /\ tasks[t].g_evicted
        /\ guide_entry(CACHE, tasks[t].chan) = <<>>

------------------------------------------------------------------------------

\* the calls in progress and the call that just ended
Calls == {tasks[t] : t \in {u \in Tasks : tasks[u].pc # "idle"}}
             \cup {returned[i] : i \in 1..Len(returned)}

Written(chan) ==
    /\ guide_entry(CACHE', chan) # <<>>
    /\ guide_entry(CACHE', chan) # guide_entry(CACHE, chan)

ChannelsWritten ==
    /\ "channels" \in DOMAIN CACHE'
    /\ "channels" \in DOMAIN CACHE => CACHE'["channels"] # CACHE["channels"]

\* no entry of the cache holds an empty value, and no call is served one
C3_NoEmptyValue ==
    /\ "channels" \in DOMAIN CACHE => CACHE["channels"].data # <<>>
    /\ \A chan \in RequestedNames :
           guide_entry(CACHE, chan) # <<>> =>
               guide_entry(CACHE, chan)[1].data # <<>>
    /\ \A i \in 1..Len(returned) :
           /\ (returned[i].op = "channels" /\ returned[i].ret.kind = "value")
                  => returned[i].ret.val[1].data # <<>>
           /\ (returned[i].op = "guide" /\ returned[i].hit # <<>>)
                  => returned[i].ret.val[1] # <<>>

\* this step is the call in slot t going on from the result m of a segment
Resumes(t, m) ==
    /\ CACHE' = m.cache
    /\ tasks'[t] = IF m.t.pc = "done" THEN IdleTask ELSE m.t

\* the step that parses a document without a channel, or without a card that
\* extracts, writes no entry
C3_EmptyNotCommitted ==
    \A t \in Tasks :
        /\ \A doc \in IndexDocs :
               (/\ tasks[t].pc = "await_index"
                /\ parse_channels(doc, <<>>) = <<>>
                /\ LET r == channels_commit(CACHE, tasks[t].ch_now,
                                            parse_channels(doc, <<>>))
                   IN  Resumes(t, after_channels(r.cache, tasks[t], r.ret,
                                                 clock)))
                   => ~ChannelsWritten
        /\ \A soup \in SchedDocs :
               (/\ tasks[t].pc = "await_sched"
                /\ parse_programs(soup) = <<>>
                /\ Resumes(t, guide_after_soup(CACHE, tasks[t], soup, clock)))
                   => ~Written(tasks[t].chan)

\* a call that returns a value in the step that starts it, without any
\* request, found the entry of its key in the cache: where the empty result
\* left no entry, the next call requests the document again
C3_AbsentIsFetched ==
    (tasks' = tasks /\ returned' # <<>>) =>
        LET r == returned'[1]
        IN  /\ r.op = "channels" => "channels" \in DOMAIN CACHE
            /\ (r.op = "guide" /\ r.ret.kind = "value") =>
                   guide_entry(CACHE, r.chan) # <<>>

C4_ExactMatchFirst ==
    \A i \in 1..Len(returned) :
        (/\ returned[i].op = "determine"
         /\ "channels" \in DOMAIN CACHE
         /\ HasKey(CACHE["channels"].data, returned[i].channel))
        => /\ returned[i].ret.kind = "value"
           /\ returned[i].ret.val[1] = returned[i].channel

\* the resolver returned a key unchanged although the key the fuzzy matcher
\* ranks first for that name is another one
C4_Witness ==
    \E i \in 1..Len(returned) :
        /\ returned[i].op = "determine"
        /\ "channels" \in DOMAIN CACHE
        /\ HasKey(CACHE["channels"].data, returned[i].channel)
        /\ returned[i].ret.val = <<returned[i].channel>>
        /\ extractOne(returned[i].channel, Keys(CACHE["channels"].data))
               # returned[i].channel

------------------------------------------------------------------------------

\* the request of a document failed in the call
TransportFailed(c) ==
    c.ret.kind = "raised" /\ c.ret.val = <<"TransportError">>

\* C5: when the channel directory cannot be obtained, the resolver returns
\* an absent result, and get_program_guide and get_current_program return
\* an absent result too, without raising, without a request for a schedule
\* document and without an entry written for the guide.
C5_UnresolvedIsAbsent ==
    \A i \in 1..Len(returned) :
        LET r == returned[i]
        IN  /\ (/\ r.op = "determine"
                /\ "channels" \notin DOMAIN CACHE
                /\ ~TransportFailed(r)) => r.ret.kind = "none"
            /\ (/\ r.op \in {"guide", "current"}
                /\ r.chan = None
                /\ ~TransportFailed(r))
               => /\ r.ret.kind = "none"
                  /\ r.n_sched = 0
                  /\ guide_entry(CACHE, r.chan) = <<>>

------------------------------------------------------------------------------

\* a card every field of which is there and reads as the code expects:
\* title anchor, genre, an hour "HhMM" of the day, and a duration of
\* minutes, of hours, or of hours and minutes
WellFormedCard(card) ==
    /\ card.title # None
    /\ card.genre # None
    /\ Len(card.hour) >= 2
    /\ \A i \in 1..Len(card.hour) : card.hour[i] >= 0
    /\ card.hour[1] <= 23 /\ card.hour[2] <= 59
    /\ Len(card.dur) >= 1
    /\ \A i \in 1..Len(card.dur) :
           card.dur[i] >= 0 \/ (i = 2 /\ card.dur[i] = EmptyText)

\* C6: the guide built from a schedule document holds one record for each
\* card that extracts without error, in the order of the cards: a card that
\* raises is dropped alone.
C6_OnlyMalformedDropped ==
    \A c \in Calls :
        LET good == SelectSeq(c.soup, WellFormedCard)
        IN  /\ Len(c.programs) = Len(good)
            /\ \A i \in 1..Len(good) :
                   /\ c.programs[i].name = good[i].title
                   /\ c.programs[i].url = good[i].href
            /\ (c.op = "guide" /\ c.n_sched = 1 /\ c.ret.kind = "value")
                   => Len(c.ret.val[1]) = Len(good)

\* the schedule of two well-formed and two malformed cards gave two records
C6_Witness ==
    \E t \in Tasks :
        /\ tasks[t].pc = "await_gather"
        /\ tasks[t].soup = SchedDay
        /\ Len(tasks[t].programs) = 2
        /\ tasks[t].programs[2].name = "Film"

------------------------------------------------------------------------------

\* the members of the fan-out that failed
Failed(c) == {i \in 1..Len(c.kids) : c.kids[i] = "raised"}

\* C7: when the requests or the synopsis extraction of some programs fail,
\* get_program_guide still returns every record: the failing ones with an
\* absent summary, the others with their summary, and raises nothing.
C7_EnrichmentNeverFatal ==
    \A i \in 1..Len(returned) :
        LET r == returned[i]
        IN  (/\ r.op = "guide"
             /\ r.kids # <<>>
             /\ \A k \in 1..Len(r.programs) : r.programs[k].url # <<>>)
            => /\ r.ret.kind = "value"
               /\ Len(r.ret.val[1]) = Len(r.programs)
               /\ \A k \in 1..Len(r.programs) :
                      r.ret.val[1][k].summary = None <=> k \in Failed(r)

\* C8: a record extracted without a detail url goes through the enrichment
\* unchanged: no request is sent for it, its summary stays absent, it stays
\* in the returned guide and the call succeeds.
C8_NoUrlPassesThrough ==
    \A i \in 1..Len(returned) :
        LET r == returned[i]
            nourl == {k \in 1..Len(r.programs) : r.programs[k].url = <<>>}
        IN  (r.op = "guide" /\ nourl # {})
            => /\ r.ret.kind = "value"
               /\ Len(r.ret.val[1]) = Len(r.programs)
               /\ \A k \in nourl : r.ret.val[1][k].summary = None
               /\ r.n_detail = Len(r.programs) - Cardinality(nourl)

------------------------------------------------------------------------------

\* every record went through async_set_summary
Enriched(programs) ==
    \A i \in 1..Len(programs) : programs[i].summary # None

\* the cache holds, and serves, only guides every record of which is enriched
C9_CachedGuidesEnriched ==
    /\ \A chan \in RequestedNames :
           guide_entry(CACHE, chan) # <<>> =>
               Enriched(guide_entry(CACHE, chan)[1].data)
    /\ \A i \in 1..Len(returned) :
           (returned[i].op = "guide" /\ returned[i].hit # <<>>)
               => Enriched(returned[i].ret.val[1])

\* an entry is written by a call whose gather has every member returned
C9_WrittenAfterJoin ==
    \A chan \in RequestedNames :
        Written(chan) =>
            \E t \in Tasks :
                /\ tasks[t].pc = "await_gather"
                /\ tasks'[t] # tasks[t]
                /\ tasks[t].chan = chan
                /\ \A i \in 1..Len(tasks[t].kids) : tasks[t].kids[i] = "ok"
                /\ guide_entry(CACHE', chan)[1].data = tasks[t].programs

\* C9: the guide entry of a channel is created or replaced only after every
\* enrichment task of the fetch has resolved; the cache never holds a guide
\* whose fan-out is incomplete and no reader is served one.
C9_CommitAfterFanOut ==
    /\ []C9_CachedGuidesEnriched
    /\ [][C9_WrittenAfterJoin]_vars

\* a call was just served the cached guide of a channel while the fan-out of
\* another call for that channel has one member done and one pending
C9_Witness ==
    \E t \in Tasks, i \in 1..Len(returned) :
        /\ tasks[t].pc = "await_gather"
        /\ \E k \in 1..Len(tasks[t].kids) : tasks[t].kids[k] = "ok"
        /\ \E k \in 1..Len(tasks[t].kids) : tasks[t].kids[k] = "pending"
        /\ returned[i].op = "guide"
        /\ returned[i].hit # <<>>
        /\ returned[i].chan = tasks[t].chan
        /\ guide_entry(CACHE, tasks[t].chan) # <<>>

\* C10: a get_program_guide call that started a fan-out returns or raises
\* only after every enrichment attempt has resolved: no member still runs
\* when the call completes.
C10_FullJoin ==
    \A i \in 1..Len(returned) :
        returned[i].kids # <<>> => Pending(returned[i].kids) = {}

------------------------------------------------------------------------------

\* the guide that async_get_current_program got from async_get_program_guide
GuideOf(r) ==
    IF r.hit # <<>> THEN guide_entry(CACHE, r.chan)[1].data ELSE r.programs

\* the first record of the guide with start_time <= now < end_time
FirstAiring(guide, now) ==
    LET airing == {i \in 1..Len(guide) :
                      guide[i].start_time <= now /\ now < guide[i].end_time}
    IN  IF airing = {} THEN <<>>
        ELSE <<guide[CHOOSE i \in airing : \A j \in airing : i <= j]>>

\* C11: for a non-empty guide, get_current_program returns the first record
\* in guide order with start_time <= now < end_time, a program being current
\* at the instant it starts and not at the instant it ends, and returns
\* nothing when no record is.
C11_CurrentIsHalfOpen ==
    \A i \in 1..Len(returned) :
        LET r == returned[i]
        IN  (/\ r.op = "current"
             /\ r.ret.kind # "raised"
             /\ r.hit # <<>> \/ r.programs # <<>>)
            => r.ret.val = FirstAiring(GuideOf(r), clock)

------------------------------------------------------------------------------

\* the program the helper was called with has both timestamps
Timed(program) == program.start_time # <<>> /\ program.end_time # <<>>

\* C12: for a program that is on (start_time <= now < end_time),
\* get_remaining_time returns the seconds until it ends, end_time - now.
C12_RemainingIsEndMinusNow ==
    (/\ util.fn = "get_remaining_time"
     /\ Timed(util.program)
     /\ util.program.start_time[1] <= clock
     /\ clock < util.program.end_time[1])
    => util.ret =
           Returns(<<(util.program.end_time[1] - clock) * SecondsPerMinute>>)

\* C13: for a program with both timestamps and every now >= end_time, the
\* instant now = end_time included, get_remaining_time returns 0.
C13_EndedHasNoRemaining ==
    (/\ util.fn = "get_remaining_time"
     /\ Timed(util.program)
     /\ clock >= util.program.end_time[1])
    => util.ret = Returns(<<0>>)

------------------------------------------------------------------------------

\* the url with only the first occurrence of the text "WxH" of dim replaced
ReplaceFirst(img_url, dim, repl) ==
    LET occurrences == {i \in 1..Len(img_url) : img_url[i].dim = dim}
        first == CHOOSE i \in occurrences : \A j \in occurrences : i <= j
    IN  [img_url EXCEPT ![first].dim = repl]

\* C15: resize_program_image returns the url unchanged when it holds no
\* WIDTHxHEIGHT path token; otherwise it returns the url with only the first
\* occurrence of the text WIDTHxHEIGHT replaced by w x trunc(w*HEIGHT/WIDTH),
\* every later occurrence of that text being left as it was.
C15_ResizeFirstOccurrence ==
    util.fn = "resize_program_image" =>
        IF PathTokens(util.img_url) = {}
        THEN util.ret = Returns(<<util.img_url>>)
        ELSE \E k \in PathTokens(util.img_url) :
                 LET dim == util.img_url[k].dim
                 IN  /\ dim[1] # 0
                     /\ util.ret = Returns(<<ReplaceFirst(util.img_url, dim,
                            <<util.img_size,
                              (util.img_size * dim[2]) \div dim[1]>>)>>)

\* C20: get_current_program_progress returns nothing when a timestamp is
\* missing, never divides by zero (a program of length zero gives nothing),
\* and otherwise returns the seconds elapsed since start_time times 100
\* divided by the whole duration in seconds: between 0 and 100 for every
\* program with start_time <= now <= end_time.
C20_ProgressIsPercent ==
    util.fn = "get_current_program_progress" =>
        LET program == util.program
        IN  /\ ~util.ret.raised
            /\ ~Timed(program) => util.ret.val = <<>>
            /\ (Timed(program) /\ program.end_time = program.start_time)
                   => util.ret.val = <<>>
            /\ (/\ Timed(program)
                /\ program.start_time[1] <= clock
                /\ clock <= program.end_time[1]
                /\ program.start_time[1] < program.end_time[1])
               => /\ util.ret.val # <<>>
                  /\ util.ret.val[1] = TrueDiv(
                         (clock - program.start_time[1]) * SecondsPerMinute
                             * 100,
                         (program.end_time[1] - program.start_time[1])
                             * SecondsPerMinute)
                  /\ 0 <= util.ret.val[1].num
                  /\ util.ret.val[1].num <= 100 * util.ret.val[1].den

------------------------------------------------------------------------------

\* every record of the guide ends after it starts
EndsAfterStart(guide) ==
    \A i \in 1..Len(guide) : guide[i].end_time > guide[i].start_time

\* C14: every record that get_program_guide returns or writes to the cache
\* has end_time > start_time: a card whose duration gives end_time <=
\* start_time is dropped at the extraction.
C14_EndAfterStart ==
    /\ \A chan \in ConcurrentNames :
           guide_entry(CACHE, chan) # <<>> =>
               EndsAfterStart(guide_entry(CACHE, chan)[1].data)
    /\ \A i \in 1..Len(returned) :
           (returned[i].op = "guide" /\ returned[i].ret.kind = "value")
               => EndsAfterStart(returned[i].ret.val[1])

------------------------------------------------------------------------------

\* an entry written in this step carries the time of the step
C16_StampIsCommitTime ==
    /\ ChannelsWritten => CACHE'["channels"].last_updated = clock'
    /\ \A chan \in RequestedNames :
           Written(chan) => guide_entry(CACHE', chan)[1].last_updated = clock'

\* the last_updated of a key never decreases from one entry to the next
C16_StampNeverDecreases ==
    /\ ("channels" \in DOMAIN CACHE /\ "channels" \in DOMAIN CACHE') =>
           CACHE'["channels"].last_updated >= CACHE["channels"].last_updated
    /\ \A chan \in RequestedNames :
           (guide_entry(CACHE, chan) # <<>> /\ guide_entry(CACHE', chan) # <<>>)
           => guide_entry(CACHE', chan)[1].last_updated
                  >= guide_entry(CACHE, chan)[1].last_updated

\* C16: when a refresh writes an entry, of the directory or of a guide, its
\* last_updated is the time of the write, not a time taken before the
\* requests of the refresh; the age a later read measures leaves out the
\* time the fetch took, and last_updated never decreases for a key.
C16_StampedAtCommit ==
    [][C16_StampIsCommitTime /\ C16_StampNeverDecreases]_vars

------------------------------------------------------------------------------

\* the call that ran in this step, as it is after the step: the one call a
\* caller of get_channels, get_program_guide, get_current_program has in
\* progress, or the call that just returned
Acting ==
    IF tasks'[1].pc # "idle" THEN <<tasks'[1]>> ELSE returned'

\* the entry of the directory is the same before and after the step
ChannelsKept ==
    /\ "channels" \in DOMAIN CACHE <=> "channels" \in DOMAIN CACHE'
    /\ "channels" \in DOMAIN CACHE => CACHE'["channels"] = CACHE["channels"]

\* the guide entry of the name is the same before and after the step
GuideKept(chan) == guide_entry(CACHE', chan) = guide_entry(CACHE, chan)

\* a call with no_cache changes the entry of its own key only as it returns
\* a non-empty result, which is then the entry's value
C17_OwnKeyKeptUntilCommit ==
    \A i \in 1..Len(Acting) :
        LET c == Acting[i]
        IN  /\ (c.op = "channels" /\ c.no_cache /\ ~ChannelsKept)
               => /\ c.pc = "done" /\ c.ret.kind = "value"
                  /\ "channels" \in DOMAIN CACHE'
                  /\ c.ret.val = <<CACHE'["channels"]>>
                  /\ CACHE'["channels"].data # <<>>
            /\ (c.op = "guide" /\ c.no_cache /\ ~GuideKept(c.chan))
               => /\ c.pc = "done" /\ c.ret.kind = "value"
                  /\ c.ret.val # <<<<>>>>
                  /\ guide_entry(CACHE', c.chan) =
                         <<[last_updated |-> c.g_now, data |-> c.ret.val[1]]>>

\* a call with no_cache leaves the guide entries of all other keys as they are
C17_OtherGuidesKept ==
    \A i \in 1..Len(Acting) :
        LET c == Acting[i]
        IN  (c.op \in {"channels", "guide"} /\ c.no_cache)
            => \A chan \in RequestedNames :
                   (c.op = "channels" \/ chan # c.chan) => GuideKept(chan)

\* a get_program_guide call with no_cache leaves the directory entry as it is
C17_DirectoryKept ==
    \A i \in 1..Len(Acting) :
        (Acting[i].op = "guide" /\ Acting[i].no_cache) => ChannelsKept

\* C17 as stated: a call with no_cache never evicts; from its start until it
\* commits a non-empty result the entry of its key is unchanged, also when
\* the refresh gives an empty result or fails, and the entries of all other
\* keys are unchanged throughout.
C17_ForceNeverEvicts ==
    [][C17_OwnKeyKeptUntilCommit /\ C17_OtherGuidesKept
           /\ C17_DirectoryKept]_vars

\* C17 amended: a call with no_cache never evicts the entry of its own key,
\* which is unchanged until the call commits a non-empty result and stays so
\* when the refresh gives an empty result or fails; the guide entries of all
\* other channels are unchanged throughout. (The directory entry is read
\* without no_cache by get_program_guide and follows its own policy.)
C17_ForceNeverEvictsOwnKey ==
    [][C17_OwnKeyKeptUntilCommit /\ C17_OtherGuidesKept]_vars

\* a get_program_guide call with no_cache awaits its documents while the
\* cache holds the guide of its channel, of age >= max_cache_age
C17_Witness ==
    \E t \in Tasks :
        /\ tasks[t].op = "guide" /\ tasks[t].no_cache
        /\ tasks[t].pc \in {"await_sched", "await_gather"}
        /\ guide_entry(CACHE, tasks[t].chan) # <<>>
        /\ tasks[t].g_now - guide_entry(CACHE, tasks[t].chan)[1].last_updated
               >= tasks[t].refresh_interval * MinutesPerHour

------------------------------------------------------------------------------

\* the records of the guide without their summaries
Unenriched(guide) ==
    [k \in 1..Len(guide) |-> [guide[k] EXCEPT !.summary = None]]

\* C19: the guide that get_program_guide returns and writes to the cache
\* lists the records in the order of their cards on the page, whatever the
\* order in which the requests of the detail pages complete: no record is
\* moved, repeated or left out by the fan-out.
C19_PageOrderKept ==
    /\ \A i \in 1..Len(returned) :
           LET r == returned[i]
           IN  (r.op = "guide" /\ r.n_sched = 1 /\ r.ret.kind = "value")
               => /\ Unenriched(r.ret.val[1]) = parse_programs(r.soup)
                  /\ r.ret.val[1] # <<>> =>
                         guide_entry(CACHE, r.chan)[1].data = r.ret.val[1]
    /\ \A chan \in ConcurrentNames :
           guide_entry(CACHE, chan) # <<>> =>
               \E soup \in {SchedDay, SchedZero} :
                   Unenriched(guide_entry(CACHE, chan)[1].data)
                       = parse_programs(soup)

\* a guide of two records was returned after the detail page of the second
\* record arrived before that of the first
C19_Witness ==
    \E i \in 1..Len(returned) :
        /\ returned[i].op = "guide"
        /\ returned[i].order = <<2, 1>>
        /\ returned[i].ret.kind = "value"
        /\ Len(returned[i].ret.val[1]) = 2
        /\ returned[i].ret.val[1][1].name = "News"

------------------------------------------------------------------------------

\* a call that raises does so for a cause of its own: a request of its own
\* failed, its own directory read parsed no channel, or a member of its own
\* fan-out raised; never for a key that another call removed or replaced
C18_FailuresAreOwn ==
    \A i \in 1..Len(returned) :
        LET r == returned[i]
        IN  r.ret.kind = "raised" =>
                \/ TransportFailed(r)
                \/ r.ret.val = <<"AttributeError">> /\ r.chans = "none"
                \/ r.ret.val = <<"EnrichmentError">> /\ Failed(r) # {}

\* the call that commits replaces whatever entry the key holds by its own
\* result, stamped with its own time: as the call returns, the entry of the
\* key is the value it fetched
C18_CommitReplaces ==
    \A i \in 1..Len(returned) :
        LET r == returned[i]
        IN  /\ (r.op = "channels" /\ r.n_index = 1 /\ r.ret.kind = "value")
               => /\ "channels" \in DOMAIN CACHE
                  /\ CACHE["channels"] = r.ret.val[1]
                  /\ CACHE["channels"].last_updated = r.ch_now
            /\ (/\ r.op = "guide" /\ r.n_sched = 1 /\ r.ret.kind = "value"
                /\ r.programs # <<>>)
               => guide_entry(CACHE, r.chan) =
                      <<[last_updated |-> r.g_now, data |-> r.ret.val[1]]>>

\* an entry is written by no step but the commit of a call that awaited its
\* documents, and is then that call's result
C18_OnlyCommitsWrite ==
    /\ ChannelsWritten =>
           \E t \in Tasks :
               /\ tasks[t].pc = "await_index"
               /\ tasks'[t] # tasks[t]
               /\ CACHE'["channels"].last_updated = tasks[t].ch_now
    /\ \A chan \in ConcurrentNames :
           Written(chan) =>
               \E t \in Tasks :
                   /\ tasks[t].pc = "await_gather"
                   /\ tasks'[t] # tasks[t]
                   /\ tasks[t].chan = chan
                   /\ guide_entry(CACHE', chan) =
                          <<[last_updated |-> tasks[t].g_now,
                             data |-> tasks[t].programs]>>

====
